---------------------------- MODULE Spec2Model ----------------------------
(***************************************************************************)
(* Fittingpy: the DataHandler of logic_module_fit.py and the handlers of   *)
(* FitConfApp in gui_module.py that act on it (select_file, add_data,      *)
(* apply_baseline, apply_smooth, apply_undo, apply_colors).                *)
(*                                                                         *)
(* Numbers.  A numpy float is modelled as an integer; the only inexact     *)
(* steps (the division in linspace, the normalisation of a filter kernel)  *)
(* round down.  Text (a line of a file, the anchor entry) is a sequence of *)
(* tokens: a number, a tab, a comma or a word.                             *)
(*                                                                         *)
(* Arrays.  A numpy array is [nd, a]: nd its number of dimensions and a    *)
(* its rows.  A 1-D array is kept as its single row; None is nd = -1.      *)
(***************************************************************************)
EXTENDS Integers, Sequences, FiniteSets, TLC

VARIABLES
    data_file,        \* DataHandler.data_file
    data_txt,         \* DataHandler.data_txt
    data_previous,    \* DataHandler.data_previous
    data_color,       \* DataHandler.data_color
    n_baseline,       \* baseline corrections applied so far (bounds the model)
    last,             \* the last handler run, what it was given (s, n, text), how
                      \* it ended (exc, shown; ret for a function called alone) and,
                      \* for apply_smooth and apply_undo, whether the handler run
                      \* before it was the same one and did not raise
    loaded            \* a load_data call has succeeded

vars == <<data_file, data_txt, data_previous, data_color, n_baseline, last, loaded>>

-----------------------------------------------------------------------------
(* Bounds of the model *)

\* most channel columns an append may build
MaxChannels == 2
\* most baseline corrections in one run
MaxBaselines == 1
\* largest window the smoothing spin box is given
MaxWindow == 2
\* largest count or window a function called alone is given
MaxCount == 5

-----------------------------------------------------------------------------
(* Text *)

Num(n) == [k |-> "num", v |-> n]
TAB == [k |-> "tab", v |-> 0]
COMMA == [k |-> "comma", v |-> 0]
WORD == [k |-> "word", v |-> 0]

Has(line, kind) == \E j \in 1..Len(line) : line[j].k = kind

First(line, kind) == CHOOSE j \in 1..Len(line) :
                        /\ line[j].k = kind
                        /\ \A i \in 1..(j-1) : line[i].k # kind

\* str.split(delimiter)
RECURSIVE split(_, _)
split(line, kind) ==
    IF ~Has(line, kind) THEN <<line>>
    ELSE LET j == First(line, kind)
         IN  <<SubSeq(line, 1, j-1)>> \o split(SubSeq(line, j+1, Len(line)), kind)

\* str.strip(): tabs are white space
RECURSIVE strip(_)
strip(field) ==
    IF Len(field) = 0 THEN field
    ELSE IF field[1].k = "tab" THEN strip(Tail(field))
    ELSE IF field[Len(field)].k = "tab" THEN strip(SubSeq(field, 1, Len(field)-1))
    ELSE field

\* float(text) succeeds
IsFloat(field) == LET s == strip(field) IN Len(s) = 1 /\ s[1].k = "num"

\* float(text)
ToFloat(field) == strip(field)[1].v

\* str(number)
ToStr(n) == <<Num(n)>>

\* ', '.join(texts)
RECURSIVE join(_)
join(texts) ==
    IF Len(texts) = 0 THEN <<>>
    ELSE IF Len(texts) = 1 THEN texts[1]
    ELSE texts[1] \o <<COMMA>> \o join(Tail(texts))

-----------------------------------------------------------------------------
(* Arrays *)

\* the sequence f with its elements evaluated (TLC leaves [i \in S |-> e] unevaluated)
array(f) == SubSeq(f, 1, Len(f))

None == [nd |-> -1, a |-> <<>>]

Arr2(rows) == [nd |-> 2, a |-> rows]
Arr1(v) == [nd |-> 1, a |-> <<v>>]

NRows(m) == Len(m.a)
NCols(m) == IF Len(m.a) = 0 THEN 0 ELSE Len(m.a[1])

\* m[:, 1:] of a 2-D array
Channels(m) == array([i \in 1..NRows(m) |-> SubSeq(m.a[i], 2, NCols(m))])

\* m[:, 0] of a 2-D array
XData(m) == array([i \in 1..NRows(m) |-> m.a[i][1]])

\* numpy.loadtxt's squeeze of the parsed rows
Squeeze(rows) ==
    IF Len(rows) = 0 THEN Arr1(<<>>)
    ELSE IF Len(rows) = 1 /\ Len(rows[1]) = 1 THEN [nd |-> 0, a |-> rows]
    ELSE IF Len(rows) = 1 THEN Arr1(rows[1])
    ELSE IF Len(rows[1]) = 1 THEN Arr1(array([i \in 1..Len(rows) |-> rows[i][1]]))
    ELSE Arr2(rows)

-----------------------------------------------------------------------------
(* The files the file dialog can return *)

Row2(x, y) == <<Num(x), TAB, Num(y)>>
RowC(x, y) == <<Num(x), COMMA, Num(y)>>

\* "" is the dialog cancelled
Paths == {"a.dat", "b.dat", "c.dat", "empty.dat", "text.dat"}

Disk(path) ==
    CASE path = "a.dat" ->      \* five rows, one channel, tabs, x descending
            << Row2(5, 10), Row2(4, 16), Row2(3, 12), Row2(2, 30), Row2(1, 14) >>
      [] path = "b.dat" ->      \* a header line, commas, one channel, x ascending
            << <<WORD, COMMA, WORD>>,
               RowC(1, 40), RowC(2, 20), RowC(3, 60), RowC(4, 10), RowC(5, 30) >>
      [] path = "c.dat" ->      \* two rows, two channels
            << <<Num(5), TAB, Num(11), TAB, Num(7)>>,
               <<Num(4), TAB, Num(13), TAB, Num(9)>> >>
      [] path = "empty.dat" -> << >>
      [] path = "text.dat" ->   \* no numeric line
            << <<WORD, TAB, WORD>>, <<WORD>> >>

-----------------------------------------------------------------------------
(* DataHandler *)

NoFile == "None"
NoColor == [set |-> FALSE, Red |-> <<>>, Green |-> <<>>, Blue |-> <<>>]

\* DataHandler.__init__
DataHandlerInit ==
    [data_file |-> NoFile, data_txt |-> None, data_previous |-> None,
     data_color |-> NoColor]

\* the loop of load_file over the lines from line i on
RECURSIVE scan_lines(_, _, _, _)
scan_lines(lines, i, delimiter, header_lines) ==
    IF i > Len(lines) THEN [delimiter |-> delimiter, header_lines |-> header_lines]
    ELSE LET d == IF Has(lines[i], "comma") THEN "comma" ELSE "tab"
             fields == split(lines[i], d)
         IN  IF \A j \in 1..Len(fields) : IsFloat(fields[j])
             THEN [delimiter |-> d, header_lines |-> header_lines]
             ELSE scan_lines(lines, i + 1, d, header_lines + 1)

load_file(file_path) ==
    LET r == scan_lines(Disk(file_path), 1, "None", 0)
    IN  [exc |-> IF r.delimiter = "None" THEN "ValueError" ELSE "",
         header_lines |-> r.header_lines, delimiter |-> r.delimiter]

\* numpy.loadtxt(file_path, delimiter=delimiter, skiprows=skiprows)
loadtxt(file_path, delimiter, skiprows) ==
    LET lines == Disk(file_path)
        rest == SubSeq(lines, skiprows + 1, Len(lines))
        data == SelectSeq(rest, LAMBDA l : Len(l) > 0)
        fields == array([i \in 1..Len(data) |-> split(data[i], delimiter)])
        good == \A i \in 1..Len(data) :
                    /\ Len(fields[i]) = Len(fields[1])
                    /\ \A j \in 1..Len(fields[i]) : IsFloat(fields[i][j])
    IN  IF ~good THEN [exc |-> "ValueError", arr |-> None]
        ELSE [exc |-> "",
              arr |-> Squeeze(array([i \in 1..Len(data) |->
                        array([j \in 1..Len(fields[i]) |-> ToFloat(fields[i][j])])]))]

\* the files do not change while the program runs: what load_file gives for
\* each of them, and what numpy.loadtxt gives when called with that
scanned_files == [p \in Paths |-> load_file(p)]
loaded_files == [p \in Paths |-> loadtxt(p, load_file(p).delimiter, load_file(p).header_lines)]

load_data(self, file_path) ==
    LET f == scanned_files[file_path]
        t == loaded_files[file_path]
    IN  IF f.exc # "" THEN [self |-> self, exc |-> "ValueError: Delimiter not found"]
        ELSE IF t.exc # "" THEN [self |-> self, exc |-> "ValueError: Failed to load data"]
        ELSE [self |-> [self EXCEPT !.data_txt = t.arr, !.data_file = file_path],
              exc |-> ""]

\* numpy.concatenate((a, b[:, 1:]), axis=1) succeeds
CanConcatenate(a, b) == a.nd = 2 /\ b.nd = 2 /\ NRows(a) = NRows(b)

\* a faulty merge, which keeps the x column of b: C9 tells it from concatenate
concatenate_all(a, b) ==
    Arr2(array([i \in 1..NRows(a) |-> a.a[i] \o b.a[i]]))

concatenate(a, b) ==
    Arr2(array([i \in 1..NRows(a) |-> a.a[i] \o SubSeq(b.a[i], 2, NCols(b))]))

\* a faulty add_data, which records the path before it merges: C4 tells it
\* from add_data
add_data_early(self, file_path) ==
    LET f == scanned_files[file_path]
        t == loaded_files[file_path]
    IN  IF self.data_file = NoFile
        THEN [self |-> self, exc |-> "ValueError: No data loaded yet"]
        ELSE IF f.exc # "" THEN [self |-> self, exc |-> "ValueError: Delimiter not found"]
        ELSE IF t.exc # ""
        THEN [self |-> self, exc |-> "ValueError: Failed to load data"]
        ELSE IF ~CanConcatenate(self.data_txt, t.arr)
        THEN [self |-> [self EXCEPT !.data_file = file_path],
              exc |-> "ValueError: Failed to load data"]
        ELSE [self |-> [self EXCEPT !.data_txt = concatenate(self.data_txt, t.arr),
                                    !.data_file = file_path],
              exc |-> ""]

\* a faulty add_data, which does not ask for a loaded file: C10 tells it from
\* add_data
add_data_unguarded(self, file_path) ==
    LET f == scanned_files[file_path]
        t == loaded_files[file_path]
    IN  IF f.exc # "" THEN [self |-> self, exc |-> "ValueError: Delimiter not found"]
        ELSE IF t.exc # "" \/ ~CanConcatenate(self.data_txt, t.arr)
        THEN [self |-> self, exc |-> "ValueError: Failed to load data"]
        ELSE [self |-> [self EXCEPT !.data_txt = concatenate(self.data_txt, t.arr),
                                    !.data_file = file_path],
              exc |-> ""]

add_data(self, file_path) ==
    LET f == scanned_files[file_path]
        t == loaded_files[file_path]
    IN  IF self.data_file = NoFile
        THEN [self |-> self, exc |-> "ValueError: No data loaded yet"]
        ELSE IF f.exc # "" THEN [self |-> self, exc |-> "ValueError: Delimiter not found"]
        ELSE IF t.exc # "" \/ ~CanConcatenate(self.data_txt, t.arr)
        THEN [self |-> self, exc |-> "ValueError: Failed to load data"]
        ELSE [self |-> [self EXCEPT !.data_txt = concatenate(self.data_txt, t.arr),
                                    !.data_file = file_path],
              exc |-> ""]

-----------------------------------------------------------------------------
(* numpy and scipy *)

Abs(n) == IF n < 0 THEN -n ELSE n

\* numpy.linspace(start, stop, num), num >= 0
linspace(start, stop, num) ==
    IF num = 1 THEN <<start>>
    ELSE array([j \in 1..num |-> start + ((j - 1) * (stop - start)) \div (num - 1)])

\* numpy.argmin(numpy.abs(x - point)), rows counted from 1
argmin_abs(x, point) ==
    CHOOSE i \in 1..Len(x) :
        /\ \A j \in 1..Len(x) : Abs(x[i] - point) <= Abs(x[j] - point)
        /\ \A j \in 1..(i-1) : Abs(x[j] - point) > Abs(x[i] - point)

\* list.sort(reverse=True)
RECURSIVE sort_reverse(_)
sort_reverse(s) ==
    IF Len(s) = 0 THEN <<>>
    ELSE LET m == CHOOSE i \in 1..Len(s) :
                      /\ \A j \in 1..Len(s) : s[i] >= s[j]
                      /\ \A j \in 1..(i-1) : s[j] < s[i]
         IN  <<s[m]>> \o sort_reverse(SubSeq(s, 1, m-1) \o SubSeq(s, m+1, Len(s)))

RECURSIVE Sum(_, _)
Sum(f, n) == IF n = 0 THEN 0 ELSE f[n] + Sum(f, n - 1)

\* column j of the rows ch
Column(ch, j) == array([i \in 1..Len(ch) |-> ch[i][j]])

\* the rows whose columns are cols, n rows
FromColumns(cols, n) == array([i \in 1..n |-> array([j \in 1..Len(cols) |-> cols[j][i]])])

\* Savitzky-Golay, polyorder 2: the least-squares quadratic over a window of w
\* samples, evaluated at each of its positions, as rows of integer weights over
\* hat_den(w).  Row (w+1)/2 is the filter's kernel; the other rows give the
\* edges (mode='interp').
hat(w) ==
    CASE w = 3 -> << <<1, 0, 0>>, <<0, 1, 0>>, <<0, 0, 1>> >>
      [] w = 5 -> << <<31,  9, -3, -5,  3>>,
                     << 9, 13, 12,  6, -5>>,
                     <<-3, 12, 17, 12, -3>>,
                     <<-5,  6, 12, 13,  9>>,
                     << 3, -5, -3,  9, 31>> >>

hat_den(w) == CASE w = 3 -> 1 [] w = 5 -> 35

\* scipy.signal.savgol_filter(x, w, polyorder=2) of one channel, w <= Len(x)
savgol_1d(x, w) ==
    LET n == Len(x)
        h == w \div 2
        H == hat(w)
        at(first, pos) == Sum([j \in 1..w |-> H[pos][j] * x[first + j - 1]], w)
                              \div hat_den(w)
    IN  array([r \in 1..n |->
            IF r <= h THEN at(1, r)
            ELSE IF r > n - h THEN at(n - w + 1, w - (n - r))
            ELSE at(r - h, h + 1)])

\* the Gaussian kernel of sigma = 1.0, radius 4 (truncate = 4.0), in 1/10000
gauss_weights == <<3990, 2420, 540, 44, 1>>

\* the index the 'reflect' boundary mode reads for position i of n samples
reflect(i, n) ==
    LET m == (i - 1) % (2 * n)
    IN  IF m < n THEN m + 1 ELSE 2 * n - m

\* scipy.ndimage.gaussian_filter1d(x, sigma=1.0) of one channel
gaussian_1d(x) ==
    LET n == Len(x)
        radius == Len(gauss_weights) - 1
        total == gauss_weights[1] + 2 * Sum([k \in 1..radius |-> gauss_weights[k + 1]], radius)
    IN  array([r \in 1..n |->
            (gauss_weights[1] * x[r]
             + Sum([k \in 1..radius |->
                      gauss_weights[k + 1] * (x[reflect(r - k, n)] + x[reflect(r + k, n)])],
                   radius)) \div total])

\* target[:, 1:] = y succeeds: numpy broadcasts y to the shape of the channels
CanBroadcast(m, y) ==
    /\ m.nd = 2
    /\ Len(y) = NRows(m) \/ Len(y) = 1
    /\ Len(y) > 0
    /\ Len(y[1]) = NCols(m) - 1 \/ Len(y[1]) = 1

\* m after m[:, 1:] = y
assign_channels(m, y) ==
    Arr2(array([i \in 1..NRows(m) |->
            <<m.a[i][1]>> \o
            [j \in 1..(NCols(m) - 1) |->
                y[IF Len(y) = 1 THEN 1 ELSE i][IF Len(y[1]) = 1 THEN 1 ELSE j]]]))

\* a faulty generate_colors, which looks the palette up without a default and
\* leaves the table alone when the name is unknown: C13 tells it from
\* generate_colors
generate_colors_strict(self, palette, num_lines) ==
    LET up == linspace(0, 100, num_lines)
        down == linspace(100, 0, num_lines)
        zeros == array([i \in 1..num_lines |-> 0])
    IN  [self EXCEPT !.data_color =
            CASE palette = "Red" -> [set |-> TRUE, Red |-> up, Green |-> zeros, Blue |-> zeros]
              [] palette = "Green" -> [set |-> TRUE, Red |-> zeros, Green |-> up, Blue |-> zeros]
              [] palette = "Blue" -> [set |-> TRUE, Red |-> zeros, Green |-> zeros, Blue |-> up]
              [] palette = "Thermometer" ->
                    [set |-> TRUE, Red |-> up, Green |-> zeros, Blue |-> down]
              [] OTHER -> self.data_color]

\* a colour component c is kept as 100 * c
generate_colors(self, palette, num_lines) ==
    LET up == linspace(0, 100, num_lines)
        down == linspace(100, 0, num_lines)
        zeros == array([i \in 1..num_lines |-> 0])
        Thermometer == [set |-> TRUE, Red |-> up, Green |-> zeros, Blue |-> down]
    IN  [self EXCEPT !.data_color =
            CASE palette = "Red" -> [set |-> TRUE, Red |-> up, Green |-> zeros, Blue |-> zeros]
              [] palette = "Green" -> [set |-> TRUE, Red |-> zeros, Green |-> up, Blue |-> zeros]
              [] palette = "Blue" -> [set |-> TRUE, Red |-> zeros, Green |-> zeros, Blue |-> up]
              [] palette = "Thermometer" -> Thermometer
              [] OTHER -> Thermometer]

-----------------------------------------------------------------------------
(* PlotHandler.  The class body defines update_plot twice; the second        *)
(* definition replaces the first, so the first is never called.              *)

\* update_plot as first defined: the traces it builds (y_data), and the
\* NameError of set_title(title), a name that is bound nowhere
PlotHandler_update_plot_first(m, offset) ==
    IF m = None THEN [exc |-> "TypeError", y_data |-> <<>>]
    ELSE IF m.nd # 2 THEN [exc |-> "IndexError", y_data |-> <<>>]
    ELSE [exc |-> "NameError",
          y_data |-> array([r \in 1..NRows(m) |->
                        array([i \in 1..(NCols(m) - 1) |->
                            m.a[r][i + 1] - m.a[2][i + 1] + offset * (i - 1)])])]

\* update_plot as the class has it: self.plot_data is defined nowhere
PlotHandler_update_plot(m, offset) ==
    [exc |-> "AttributeError", y_data |-> <<>>]

-----------------------------------------------------------------------------
(* FitConfApp: each handler gives the DataHandler it leaves (self), the      *)
(* exception that leaves the handler (exc, "" for none) and the dialogs it   *)
(* opens, in order (shown).                                                  *)

\* the dialog msg is among those the call r opened
Shown(r, msg) == \E i \in 1..Len(r.shown) : r.shown[i] = msg

\* PlotHandler.update_plot calls self.plot_data, which no class defines: the
\* handler's except clause opens a dialog and the dataset is not touched
update_plot(self) == <<"Failed to update plot">>

\* the baseline of one channel: the loop over index, from segment k on
RECURSIVE fill_baseline(_, _, _, _)
fill_baseline(baseline, baseline_index, values, k) ==
    IF k > Len(baseline_index) THEN baseline
    ELSE LET from == baseline_index[k - 1]
             elements == baseline_index[k] - from
             bl_y == linspace(values[k - 1], values[k], elements)
         IN  fill_baseline(
                 array([r \in 1..Len(baseline) |->
                     IF from <= r /\ r < baseline_index[k] THEN bl_y[r - from + 1]
                     ELSE baseline[r]]),
                 baseline_index, values, k + 1)

\* a faulty apply_baseline, which gives up on an empty segment as it does on a
\* negative one: C18 tells it from apply_baseline
apply_baseline_strict(self, text) ==
    LET m == self.data_txt
        x_data == XData(m)
        y_data == Channels(m)
        parts == split(strip(text), "comma")
        parsed == \A j \in 1..Len(parts) : IsFloat(parts[j])
        sorted == sort_reverse(array([j \in 1..Len(parts) |-> ToFloat(parts[j])]))
        entry == join(array([j \in 1..Len(sorted) |-> ToStr(sorted[j])]))
        points == <<x_data[1]>> \o sorted
        baseline_index == array([k \in 1..Len(points) |-> argmin_abs(x_data, points[k])])
        negative == \E k \in 2..Len(points) : baseline_index[k] <= baseline_index[k - 1]
        baseline == FromColumns(
            array([i \in 1..(NCols(m) - 1) |->
                fill_baseline(array([r \in 1..NRows(m) |-> 0]), baseline_index,
                    array([k \in 1..Len(points) |-> y_data[baseline_index[k]][i]]), 2)]),
            NRows(m))
        corrected == array([r \in 1..NRows(m) |->
                        array([i \in 1..(NCols(m) - 1) |-> y_data[r][i] - baseline[r][i]])])
    IN  IF m = None
        THEN [self |-> self, exc |-> "TypeError", shown |-> <<>>, text |-> text]
        ELSE IF m.nd # 2
        THEN [self |-> self, exc |-> "IndexError", shown |-> <<>>, text |-> text]
        ELSE IF ~parsed
        THEN [self |-> self, exc |-> "", shown |-> <<"Invalid baseline points">>, text |-> text]
        ELSE IF negative
        THEN [self |-> self, exc |-> "", shown |-> <<"Invalid baseline points">>, text |-> entry]
        ELSE [self |-> [self EXCEPT !.data_txt = assign_channels(m, corrected)],
              exc |-> "", shown |-> update_plot(self), text |-> entry]

apply_baseline(self, text) ==
    LET m == self.data_txt
        x_data == XData(m)
        y_data == Channels(m)
        parts == split(strip(text), "comma")
        parsed == \A j \in 1..Len(parts) : IsFloat(parts[j])
        sorted == sort_reverse(array([j \in 1..Len(parts) |-> ToFloat(parts[j])]))
        entry == join(array([j \in 1..Len(sorted) |-> ToStr(sorted[j])]))
        points == <<x_data[1]>> \o sorted
        baseline_index == array([k \in 1..Len(points) |-> argmin_abs(x_data, points[k])])
        negative == \E k \in 2..Len(points) : baseline_index[k] < baseline_index[k - 1]
        baseline == FromColumns(
            array([i \in 1..(NCols(m) - 1) |->
                fill_baseline(array([r \in 1..NRows(m) |-> 0]), baseline_index,
                    array([k \in 1..Len(points) |-> y_data[baseline_index[k]][i]]), 2)]),
            NRows(m))
        corrected == array([r \in 1..NRows(m) |->
                        array([i \in 1..(NCols(m) - 1) |-> y_data[r][i] - baseline[r][i]])])
    IN  IF m = None
        THEN [self |-> self, exc |-> "TypeError", shown |-> <<>>, text |-> text]
        ELSE IF m.nd # 2
        THEN [self |-> self, exc |-> "IndexError", shown |-> <<>>, text |-> text]
        ELSE IF ~parsed
        THEN [self |-> self, exc |-> "", shown |-> <<"Invalid baseline points">>, text |-> text]
        ELSE IF negative
        THEN [self |-> self, exc |-> "", shown |-> <<"Invalid baseline points">>, text |-> entry]
        ELSE [self |-> [self EXCEPT !.data_txt = assign_channels(m, corrected)],
              exc |-> "", shown |-> update_plot(self), text |-> entry]

\* a faulty window, made odd and never raised to 3: C19 tells it from
\* savgol_window
savgol_window_odd(window_size) ==
    IF window_size % 2 = 0 THEN window_size + 1 ELSE window_size

\* the window apply_smooth gives savgol_filter
savgol_window(window_size) ==
    LET odd == IF window_size % 2 = 0 THEN window_size + 1 ELSE window_size
    IN  IF odd > 3 THEN odd ELSE 3

\* the window apply_smooth gives the moving average
average_window(window_size) == IF window_size < 1 THEN 1 ELSE window_size

\* the rows of the moving average of one channel of n rows: numpy.convolve in
\* mode 'valid', then numpy.pad by window_size // 2 at both ends
average_rows(n, window_size) ==
    LET w == average_window(window_size)
        valid == (IF n > w THEN n - w ELSE w - n) + 1
    IN  valid + 2 * (w \div 2)

\* a faulty apply_smooth, which takes a new snapshot at every call: C5 tells it
\* from apply_smooth
apply_smooth_recapture(self, case, window_size) ==
    LET taken == [self EXCEPT !.data_previous = self.data_txt]
        source == taken.data_previous
        chans == Channels(source)
        filter(f(_)) ==
            FromColumns(array([j \in 1..(NCols(source) - 1) |-> f(Column(chans, j))]),
                        NRows(source))
        sg(x) == savgol_1d(x, savgol_window(window_size))
        y_data == CASE case = "None" -> chans
                    [] case = "Savitzky-Golay" -> filter(sg)
                    [] case = "Gaussian" -> filter(gaussian_1d)
    IN  IF self.data_txt = None
        THEN [self |-> self, exc |-> "AttributeError", shown |-> <<>>]
        ELSE IF source.nd # 2
        THEN [self |-> taken, exc |-> "IndexError", shown |-> <<>>]
        ELSE IF case = "Savitzky-Golay" /\ savgol_window(window_size) > NRows(source)
        THEN [self |-> taken, exc |-> "ValueError", shown |-> <<>>]
        ELSE IF case = "Moving Average"
        THEN [self |-> taken, exc |-> "ValueError", shown |-> <<>>]
        ELSE IF taken.data_txt.nd # 2
        THEN [self |-> taken, exc |-> "IndexError", shown |-> <<>>]
        ELSE IF ~CanBroadcast(taken.data_txt, y_data)
        THEN [self |-> taken, exc |-> "ValueError", shown |-> <<>>]
        ELSE [self |-> [taken EXCEPT !.data_txt = assign_channels(taken.data_txt, y_data)],
              exc |-> "", shown |-> update_plot(taken)]

apply_smooth(self, case, window_size) ==
    LET taken == IF self.data_previous = None
                 THEN [self EXCEPT !.data_previous = self.data_txt]
                 ELSE self
        source == taken.data_previous
        chans == Channels(source)
        filter(f(_)) ==
            FromColumns(array([j \in 1..(NCols(source) - 1) |-> f(Column(chans, j))]),
                        NRows(source))
        sg(x) == savgol_1d(x, savgol_window(window_size))
        y_data == CASE case = "None" -> chans
                    [] case = "Savitzky-Golay" -> filter(sg)
                    [] case = "Gaussian" -> filter(gaussian_1d)
    IN  IF self.data_previous = None /\ self.data_txt = None
        THEN [self |-> self, exc |-> "AttributeError", shown |-> <<>>]
        ELSE IF source.nd # 2
        THEN [self |-> taken, exc |-> "IndexError", shown |-> <<>>]
        ELSE IF case = "Savitzky-Golay" /\ savgol_window(window_size) > NRows(source)
        THEN [self |-> taken, exc |-> "ValueError", shown |-> <<>>]
        ELSE IF case = "Moving Average"
        THEN [self |-> taken, exc |-> "ValueError", shown |-> <<>>]
        ELSE IF taken.data_txt.nd # 2
        THEN [self |-> taken, exc |-> "IndexError", shown |-> <<>>]
        ELSE IF ~CanBroadcast(taken.data_txt, y_data)
        THEN [self |-> taken, exc |-> "ValueError", shown |-> <<>>]
        ELSE [self |-> [taken EXCEPT !.data_txt = assign_channels(taken.data_txt, y_data)],
              exc |-> "", shown |-> update_plot(taken)]

\* a faulty apply_undo, which keeps the snapshot it restores: C6 tells it from
\* apply_undo
apply_undo_keep(self) ==
    IF self.data_previous # None
    THEN [self |-> [self EXCEPT !.data_txt = self.data_previous],
          exc |-> "", shown |-> update_plot(self)]
    ELSE [self |-> self, exc |-> "", shown |-> <<"No previous data to undo.">>]

apply_undo(self) ==
    IF self.data_previous # None
    THEN [self |-> [self EXCEPT !.data_txt = self.data_previous, !.data_previous = None],
          exc |-> "", shown |-> update_plot(self)]
    ELSE [self |-> self, exc |-> "", shown |-> <<"No previous data to undo.">>]

select_file(self, file_path) ==
    LET r == load_data(self, file_path)
    IN  IF file_path = ""
        THEN [self |-> self, exc |-> "", shown |-> <<"No file selected">>]
        ELSE IF r.exc # ""
        THEN [self |-> self, exc |-> "", shown |-> <<"Failed to load file">>]
        \* the dialog of the load, then the one of the handler's except clause:
        \* the widget it configures next does not exist
        ELSE [self |-> r.self, exc |-> "",
              shown |-> <<"loaded successfully", "Failed to load file">>]

apply_colors(self, palette) ==
    IF self.data_txt = None
    THEN [self |-> generate_colors(self, palette, 0), exc |-> "",
          shown |-> update_plot(self)]
    ELSE IF self.data_txt.nd # 2
    THEN [self |-> self, exc |-> "IndexError", shown |-> <<>>]
    ELSE [self |-> generate_colors(self, palette, NCols(self.data_txt) - 1),
          exc |-> "", shown |-> update_plot(self)]

-----------------------------------------------------------------------------
(* What the user can enter *)

\* the anchor entry: "1, 3", "3, 3, 1", a word
AnchorTexts ==
    { <<Num(1), COMMA, Num(3)>>,
      <<Num(3), COMMA, Num(3), COMMA, Num(1)>>,
      <<WORD>> }

Windows == {MaxWindow}

\* the smoothing combo box and spin box; the window is read by two methods only
SmoothConfigs ==
    {<<"None", 0>>, <<"Gaussian", 0>>}
        \cup {<<c, w>> : c \in {"Savitzky-Golay", "Moving Average"}, w \in Windows}

\* the colour combo box is read-only: it gives one of its listed values
Palettes == {"Blue", "Thermometer"}

\* the offset entry
Offsets == {0, 3}

-----------------------------------------------------------------------------
(* The state machine *)

Self == [data_file |-> data_file, data_txt |-> data_txt,
         data_previous |-> data_previous, data_color |-> data_color]

NoArgs == [s |-> "", n |-> 0, text |-> <<>>]

\* the handler op, given args, ended as r
Ran(op, args, r) ==
    /\ data_file' = r.self.data_file
    /\ data_txt' = r.self.data_txt
    /\ data_previous' = r.self.data_previous
    /\ data_color' = r.self.data_color
    /\ last' = [op |-> op, s |-> args.s, n |-> args.n, text |-> args.text,
                exc |-> r.exc, shown |-> r.shown, ret |-> 0,
                again |-> /\ op \in {"apply_smooth", "apply_undo"}
                          /\ last.op = op /\ last.exc = ""]
    /\ loaded' = (loaded \/ (op = "select_file" /\ Shown(r, "loaded successfully")))

Init ==
    /\ data_file = DataHandlerInit.data_file
    /\ data_txt = DataHandlerInit.data_txt
    /\ data_previous = DataHandlerInit.data_previous
    /\ data_color = DataHandlerInit.data_color
    /\ n_baseline = 0
    /\ last = [op |-> "__init__", s |-> "", n |-> 0, text |-> <<>>,
               exc |-> "", shown |-> <<>>, ret |-> 0, again |-> FALSE]
    /\ loaded = FALSE

SelectFile ==
    \E file_path \in Paths \cup {""} :
        \E r \in {select_file(Self, file_path)} :
            /\ Ran("select_file", [s |-> file_path, n |-> 0, text |-> <<>>], r)
            /\ UNCHANGED n_baseline

AddData ==
    \E file_path \in Paths :
        \E r \in {add_data(Self, file_path)} :
            /\ NCols(r.self.data_txt) - 1 <= MaxChannels
            /\ Ran("add_data", [s |-> file_path, n |-> 0, text |-> <<>>],
                   [self |-> r.self, exc |-> r.exc, shown |-> <<>>])
            /\ UNCHANGED n_baseline

ApplyBaseline ==
    \E text \in AnchorTexts :
        \E r \in {apply_baseline(Self, text)} :
            LET done == r.exc = "" /\ ~Shown(r, "Invalid baseline points")
            IN  /\ done => n_baseline < MaxBaselines
                /\ Ran("apply_baseline", [s |-> "", n |-> 0, text |-> text], r)
                /\ n_baseline' = IF done THEN n_baseline + 1 ELSE n_baseline

ApplySmooth ==
    \E cfg \in SmoothConfigs :
        \E r \in {apply_smooth(Self, cfg[1], cfg[2])} :
            /\ Ran("apply_smooth", [s |-> cfg[1], n |-> cfg[2], text |-> <<>>], r)
            /\ UNCHANGED n_baseline

ApplyUndo ==
    \E r \in {apply_undo(Self)} :
        /\ Ran("apply_undo", NoArgs, r)
        /\ UNCHANGED n_baseline

ApplyColors ==
    \E palette \in Palettes :
        \E r \in {apply_colors(Self, palette)} :
            /\ Ran("apply_colors", NoArgs, r)
            /\ UNCHANGED n_baseline

Next ==
    \/ SelectFile
    \/ AddData
    \/ ApplyBaseline
    \/ ApplySmooth
    \/ ApplyUndo

Spec == Init /\ [][Next]_vars

\* the colour table next to the operations that change the channel count
NextColors ==
    \/ SelectFile
    \/ AddData
    \/ ApplySmooth
    \/ ApplyUndo
    \/ ApplyColors

SpecColors == Init /\ [][NextColors]_vars

\* generate_colors and the window of apply_smooth called alone, on every
\* palette name and every count or window of the bound
PaletteNames == {"Red", "Green", "Blue", "Thermometer", "Jet", ""}

Requested == (0 - MaxCount)..MaxCount

InitFunctions ==
    /\ data_file = DataHandlerInit.data_file
    /\ data_txt = DataHandlerInit.data_txt
    /\ data_previous = DataHandlerInit.data_previous
    /\ data_color = DataHandlerInit.data_color
    /\ n_baseline = 0
    /\ \E palette \in PaletteNames, k \in Requested :
          last = [op |-> "__init__", s |-> palette, n |-> k, text |-> <<>>,
                  exc |-> "", shown |-> <<>>, ret |-> 0, again |-> FALSE]
    /\ loaded = FALSE

\* generate_colors(last.s, last.n); a count is never negative
GenerateColors ==
    /\ last.op = "__init__"
    /\ last.n >= 0
    /\ data_color' = generate_colors(Self, last.s, last.n).data_color
    /\ last' = [last EXCEPT !.op = "generate_colors"]
    /\ UNCHANGED <<data_file, data_txt, data_previous, n_baseline, loaded>>

\* the window made of the spin box value last.n
SavgolWindow ==
    /\ last.op = "__init__"
    /\ last' = [last EXCEPT !.op = "savgol_window", !.ret = savgol_window(last.n)]
    /\ UNCHANGED <<data_file, data_txt, data_previous, data_color, n_baseline, loaded>>

NextFunctions ==
    \/ GenerateColors
    \/ SavgolWindow

SpecFunctions == InitFunctions /\ [][NextFunctions]_vars

-----------------------------------------------------------------------------
(* Properties *)

\* the call r raised, or reported that it gave up
Failed(r) == r.exc # "" \/ Shown(r, "Invalid baseline points")

Ok(r) == ~Failed(r)

NothingToUndo(r) == Shown(r, "No previous data to undo.")

\* the matrix numpy.loadtxt reads from the file, as load_data asks for it
Parsed(file_path) == loaded_files[file_path]

\* C1: with no snapshot, one baseline correction or one smoothing followed by
\* undo leaves data_txt as it was before the mutation, and no snapshot.
C1_UndoRestoresAfterOneMutation ==
    (data_txt.nd = 2 /\ data_previous = None) =>
        /\ \A text \in AnchorTexts :
              LET m == apply_baseline(Self, text)
                  u == apply_undo(m.self)
              IN  Ok(m) => /\ u.self.data_txt = data_txt
                           /\ u.self.data_previous = None
        /\ \A cfg \in SmoothConfigs :
              LET m == apply_smooth(Self, cfg[1], cfg[2])
                  u == apply_undo(m.self)
              IN  Ok(m) => /\ u.self.data_txt = data_txt
                           /\ u.self.data_previous = None

\* C2: after a successful load the snapshot is empty, data_txt is the parsed
\* matrix of the loaded file, and an undo reports that there is nothing to undo.
C2_LoadClearsSnapshot ==
    (last.op = "select_file" /\ Shown(last, "loaded successfully")) =>
        /\ data_previous = None
        /\ data_txt = Parsed(last.s).arr
        /\ NothingToUndo(apply_undo(Self))
        /\ apply_undo(Self).self.data_txt = data_txt

\* C3: a baseline correction or a smoothing that fails leaves data_txt, the
\* snapshot and data_file as they were.
C3_FailedMutationChangesNothing ==
    [][ (last'.op \in {"apply_baseline", "apply_smooth"} /\ ~Ok(last'))
            => UNCHANGED <<data_txt, data_previous, data_file>> ]_vars

\* C4: appending a file whose row count differs from that of data_txt fails, and
\* data_txt, the snapshot and data_file are as before the call.
C4_AppendRowMismatchFails ==
    \A file_path \in Paths :
        LET new == Parsed(file_path)
            r == add_data(Self, file_path)
        IN  (/\ data_file # NoFile
             /\ data_txt.nd = 2
             /\ new.exc = "" /\ new.arr.nd = 2
             /\ NRows(new.arr) # NRows(data_txt))
            => /\ r.exc = "ValueError: Failed to load data"
               /\ r.self = Self

C4_Witness ==
    /\ last.op = "add_data"
    /\ last.exc = "ValueError: Failed to load data"
    /\ data_txt.nd = 2
    /\ Parsed(last.s).exc = "" /\ Parsed(last.s).arr.nd = 2
    /\ NRows(Parsed(last.s).arr) # NRows(data_txt)

C6_UndoIsSafe ==
    LET u1 == apply_undo(Self)
        u2 == apply_undo(u1.self)
    IN  /\ u1.exc = "" /\ u2.exc = ""
        /\ data_previous = None => (NothingToUndo(u1) /\ u1.self = Self)
        /\ data_previous # None => (~NothingToUndo(u1) /\ u1.self.data_previous = None)
        /\ NothingToUndo(u2) /\ u2.self = u1.self
        /\ (last.op = "apply_undo" /\ last.again) => NothingToUndo(last)

C6_Witness ==
    /\ last.op = "apply_undo" /\ last.again
    /\ NothingToUndo(last)
    /\ data_txt.nd = 2

\* C7: every smoothing method keeps the row count: on a loaded matrix of n rows
\* the moving average gives n rows for every window, and so do the other
\* methods when they give a result.
C7_SmoothingKeepsRowCount ==
    (last.op = "apply_smooth" /\ data_previous.nd = 2) =>
        /\ last.s = "Moving Average" =>
              /\ last.exc = ""
              /\ average_rows(NRows(data_previous), last.n) = NRows(data_previous)
        /\ last.exc = "" => NRows(data_txt) = NRows(data_previous)

\* a line no delimiter splits into numbers
NotNumeric(line) ==
    \A d \in {"comma", "tab"} :
        \E j \in 1..Len(split(line, d)) : ~IsFloat(split(line, d)[j])

\* C8: loading a file with no numeric line fails, and data_txt and data_file
\* keep their values.
C8_NoNumericLineFails ==
    [][ (/\ last'.op = "select_file" /\ last'.s # ""
         /\ \A i \in 1..Len(Disk(last'.s)) : NotNumeric(Disk(last'.s)[i]))
            => /\ scanned_files[last'.s].exc # ""
               /\ load_data(Self, last'.s).exc # ""
               /\ UNCHANGED <<data_txt, data_file>> ]_vars

\* C9: a successful append keeps the rows, the x column and the channels of
\* data_txt, adds the channels of the new file in order, without its x column,
\* and leaves the snapshot alone.
C9_AppendAddsChannels ==
    \A file_path \in Paths :
        LET r == add_data(Self, file_path)
            new == Parsed(file_path).arr
            old == data_txt
            got == r.self.data_txt
        IN  r.exc = "" =>
                /\ got.nd = 2
                /\ NRows(got) = NRows(old) /\ NRows(new) = NRows(old)
                /\ NCols(got) = NCols(old) + NCols(new) - 1
                /\ \A i \in 1..NRows(old) :
                      /\ \A j \in 1..NCols(old) : got.a[i][j] = old.a[i][j]
                      /\ \A j \in 2..NCols(new) : got.a[i][NCols(old) + j - 1] = new.a[i][j]
                /\ r.self.data_previous = data_previous

C9_Witness ==
    /\ last.op = "add_data" /\ last.exc = ""
    /\ last.s = "b.dat"
    /\ data_previous # None
    /\ NCols(data_txt) = 3
    /\ data_txt.a[1] = <<5, 10, 40>>

\* C10: before any load has succeeded add_data fails with "No data loaded yet"
\* and data_txt, the snapshot and data_file stay empty; after a load has
\* succeeded add_data no longer fails for this reason.
C10_AppendNeedsALoad ==
    \A file_path \in Paths :
        LET r == add_data(Self, file_path)
        IN  /\ ~loaded => /\ r.exc = "ValueError: No data loaded yet"
                          /\ r.self = Self
                          /\ data_txt = None /\ data_previous = None
                          /\ data_file = NoFile
            /\ loaded => r.exc # "ValueError: No data loaded yet"

C10_Witness ==
    /\ last.op = "add_data"
    /\ last.exc = "ValueError: No data loaded yet"
    /\ ~loaded

\* C11: the colour table is never stale: whenever data_txt is a matrix, the
\* table holds one red, one green and one blue component per channel of it.
C11_ColorsMatchChannels ==
    data_txt.nd = 2 =>
        /\ data_color.set
        /\ Len(data_color.Red) = NCols(data_txt) - 1
        /\ Len(data_color.Green) = NCols(data_txt) - 1
        /\ Len(data_color.Blue) = NCols(data_txt) - 1

\* C12: for a matrix of two rows or more, every offset o and every channel i
\* (counted from 0), update_plot builds the trace raw_i - raw_i(second row) +
\* o*i: it is o*i at the second row and the trace of offset 0 plus o*i at
\* every row.
C12_ProjectionShiftsByOffset ==
    (data_txt.nd = 2 /\ NRows(data_txt) >= 2) =>
        \A o \in Offsets :
            LET p == PlotHandler_update_plot(data_txt, o)
                p0 == PlotHandler_update_plot(data_txt, 0)
            IN  /\ p.exc = "" /\ p0.exc = ""
                /\ Len(p.y_data) = NRows(data_txt)
                /\ \A r \in 1..NRows(data_txt) : \A i \in 1..(NCols(data_txt) - 1) :
                      /\ p.y_data[r][i] =
                            data_txt.a[r][i + 1] - data_txt.a[2][i + 1] + o * (i - 1)
                      /\ p.y_data[r][i] = p0.y_data[r][i] + o * (i - 1)
                /\ \A i \in 1..(NCols(data_txt) - 1) : p.y_data[2][i] = o * (i - 1)

KnownPalettes == {"Red", "Green", "Blue", "Thermometer"}

\* C13: generate_colors does not fail on a palette name it does not know: the
\* table it builds is the one it builds for Thermometer and the same count.
C13_UnknownPaletteIsThermometer ==
    (last.op = "generate_colors" /\ last.s \notin KnownPalettes) =>
        /\ data_color.set
        /\ data_color = generate_colors(DataHandlerInit, "Thermometer", last.n).data_color
        /\ Len(data_color.Red) = last.n

C13_Witness ==
    /\ last.op = "generate_colors"
    /\ last.s = "Jet" /\ last.n = 3
    /\ data_color.Red = <<0, 50, 100>>
    /\ data_color.Green = <<0, 0, 0>>
    /\ data_color.Blue = <<100, 50, 0>>

\* C19: for every window asked of Savitzky-Golay (zero, negative and even ones
\* too) the window given to the filter is odd, at least 3, and the smallest
\* odd number that is at least max(3, window).
C19_SavgolWindowOddAtLeast3 ==
    last.op = "savgol_window" =>
        LET least == IF last.n > 3 THEN last.n ELSE 3
        IN  /\ last.ret % 2 = 1
            /\ last.ret >= 3
            /\ last.ret >= least
            /\ \A k \in least..(last.ret - 1) : k % 2 = 0
            /\ last.ret - least <= 1

C19_Witness ==
    /\ last.op = "savgol_window"
    /\ last.n = -2
    /\ last.ret = 3

\* float() succeeds on every field of the anchor entry
CanParse(text) ==
    \A j \in 1..Len(split(strip(text), "comma")) : IsFloat(split(strip(text), "comma")[j])

\* the numbers of the anchor entry as apply_baseline sorts them
anchor_values(text) ==
    LET parts == split(strip(text), "comma")
    IN  sort_reverse(array([j \in 1..Len(parts) |-> ToFloat(parts[j])]))

\* baseline_points after the first x is inserted, and the rows they map to
\* (baseline_index, rows counted from 1)
anchor_points(m, values) == <<XData(m)[1]>> \o values

anchor_rows(m, values) ==
    array([k \in 1..(Len(values) + 1) |-> argmin_abs(XData(m), anchor_points(m, values)[k])])

\* C14: after a successful apply_baseline the corrected value of every channel
\* is zero at every row an anchor maps to: the first row, the rows of the
\* anchors in between and the row of the last anchor.
C14_AnchorRowsAreZero ==
    data_txt.nd = 2 =>
        \A text \in AnchorTexts :
            LET r == apply_baseline(Self, text)
                rows == anchor_rows(data_txt, anchor_values(text))
            IN  (CanParse(text) /\ Ok(r)) =>
                    \A k \in 1..Len(rows) : \A j \in 2..NCols(data_txt) :
                        r.self.data_txt.a[rows[k]][j] = 0

\* C16: for an anchor entry that parses and a loaded matrix, whatever the order
\* of its x column, the anchors with the first x in front are in ascending
\* order, the rows they map to never decrease, and apply_baseline completes.
C16_AnchorsAscending ==
    data_txt.nd = 2 =>
        \A text \in AnchorTexts :
            CanParse(text) =>
                LET points == anchor_points(data_txt, anchor_values(text))
                    rows == anchor_rows(data_txt, anchor_values(text))
                IN  /\ \A k \in 2..Len(points) : points[k - 1] <= points[k]
                    /\ \A k \in 2..Len(rows) : rows[k - 1] <= rows[k]
                    /\ Ok(apply_baseline(Self, text))

\* the sequence s without its element k
Without(s, k) == SubSeq(s, 1, k - 1) \o SubSeq(s, k + 1, Len(s))

\* the anchor entry that lists the numbers of values
EntryOf(values) == join(array([j \in 1..Len(values) |-> ToStr(values[j])]))

\* C18: when two consecutive anchors map to the same row apply_baseline does
\* not raise, and it leaves what it leaves when the second of the two is not
\* in the entry; when it was the only anchor, nothing is corrected.
C18_EmptySegmentAddsNothing ==
    data_txt.nd = 2 =>
        \A text \in AnchorTexts :
            CanParse(text) =>
                LET values == anchor_values(text)
                    rows == anchor_rows(data_txt, values)
                    r == apply_baseline(Self, text)
                IN  \A k \in 2..Len(rows) :
                        rows[k] = rows[k - 1] =>
                            LET plain == Without(values, k - 1)
                                q == apply_baseline(Self, EntryOf(plain))
                            IN  /\ r.exc = ""
                                /\ Len(plain) = 0 => (Ok(r) /\ r.self = Self)
                                /\ Len(plain) > 0 =>
                                      /\ q.exc = r.exc /\ q.shown = r.shown
                                      /\ q.self = r.self

C18_Witness ==
    /\ last.op = "apply_baseline" /\ Ok(last)
    /\ last.text = <<Num(3), COMMA, Num(3), COMMA, Num(1)>>
    /\ data_file = "a.dat"
    /\ data_txt.a = << <<5, 0>>, <<4, 4>>, <<3, 0>>, <<2, 16>>, <<1, 14>> >>

\* the filter apply_smooth runs on one channel for the cases that complete
filter_1d(case, window_size, x) ==
    CASE case = "None" -> x
      [] case = "Savitzky-Golay" -> savgol_1d(x, savgol_window(window_size))
      [] case = "Gaussian" -> gaussian_1d(x)

\* channel i of the matrix m
ChannelOf(m, i) == Column(Channels(m), i)

HasChannel(m, i) == m # None /\ m.nd = 2 /\ i < NCols(m)

\* C15: after a successful apply_smooth every channel i of data_txt is the
\* chosen filter of channel i of the data before the call (of the snapshot, or
\* of data_txt where the snapshot has no such channel): no channel holds the
\* filter of another channel.
C15_SmoothingPerChannel ==
    [][(last'.op = "apply_smooth" /\ last'.exc = "") =>
          \A i \in 1..(NCols(data_txt') - 1) :
              \E src \in {data_previous, data_txt} :
                  /\ HasChannel(src, i)
                  /\ ChannelOf(data_txt', i) = filter_1d(last'.s, last'.n, ChannelOf(src, i))]_vars

\* C17: a successful apply_smooth that follows a successful apply_baseline
\* leaves the filter of the baseline-corrected channels, whatever was done
\* before the baseline correction.
C17_SmoothingKeepsBaseline ==
    [][(/\ last.op = "apply_baseline" /\ Ok(last)
        /\ last'.op = "apply_smooth" /\ last'.exc = "") =>
          \A i \in 1..(NCols(data_txt) - 1) :
              /\ HasChannel(data_txt', i)
              /\ ChannelOf(data_txt', i) = filter_1d(last'.s, last'.n, ChannelOf(data_txt, i))]_vars

=============================================================================
